---- MODULE Spec2Model ----
(***************************************************************************)
(* Model of xml_to_json_converter.py: the query parser                     *)
(* (parse_glue_sql_file), the file converter (convert_xml_to_json) and the *)
(* command line driver (main).                                             *)
(*                                                                         *)
(* Python strings are sequences of one-character strings, so that slicing, *)
(* substring tests, strip() and the CDATA regular expression are computed  *)
(* character by character.  Python dicts are functions whose domain is the *)
(* key set.  The file system is a dict from path to entry.                 *)
(***************************************************************************)
EXTENDS Integers, Sequences, FiniteSets, TLC

VARIABLES
    fs,             \* file system: path -> [kind, data]
    readonly,       \* paths on which open(path, 'w') fails
    argv,           \* sys.argv (argv[1] is the script name)
    pc,             \* position of the running call
    files,          \* main: list returned by the two globs
    idx,            \* main: position of the for loop in files
    success_count,  \* main: tally of True returns
    fail_count,     \* main: tally of False returns
    exit_status,    \* process exit status, NotExited while running
    calls,          \* log of the convert_xml_to_json calls main made
    arg_in,         \* direct call: first argument
    arg_out,        \* direct call: output_file argument
    ret             \* direct call: what the function returned

vars == <<fs, readonly, argv, pc, files, idx, success_count, fail_count,
          exit_status, calls, arg_in, arg_out, ret>>

(***************************************************************************)
(* Bounds of the input documents.                                          *)
(***************************************************************************)
MaxQueries == 3
MaxChildren == 2

(***************************************************************************)
(* Python values.                                                          *)
(***************************************************************************)
\* None, for optional strings: no character is the four-letter string "None".
None == <<"None">>

Truthy(s) == s # None /\ s # <<>>

OrEmpty(s) == IF Truthy(s) THEN s ELSE <<>>

Min(S) == CHOOSE x \in S : \A y \in S : x <= y

Max(S) == CHOOSE x \in S : \A y \in S : x >= y

StartsWithAt(s, sub, i) ==
    /\ i >= 1
    /\ i + Len(sub) - 1 <= Len(s)
    /\ \A k \in 1..Len(sub) : s[i + k - 1] = sub[k]

\* sub in s
Contains(s, sub) == \E i \in 1..(Len(s) + 1) : StartsWithAt(s, sub, i)

EndsWith(s, suffix) == StartsWithAt(s, suffix, Len(s) - Len(suffix) + 1)

IsSpace(c) == c \in {" ", "\n", "\t", "\r"}

\* str.strip()
strip(s) ==
    LET keep == {i \in 1..Len(s) : ~IsSpace(s[i])}
    IN  IF keep = {} THEN <<>> ELSE SubSeq(s, Min(keep), Max(keep))

UPPER == <<"A","B","C","D","E","F","G","H","I","J","K","L","M",
           "N","O","P","Q","R","S","T","U","V","W","X","Y","Z">>

LOWER == <<"a","b","c","d","e","f","g","h","i","j","k","l","m",
           "n","o","p","q","r","s","t","u","v","w","x","y","z">>

LowerChar(c) ==
    IF \E i \in 1..Len(UPPER) : UPPER[i] = c
    THEN LOWER[CHOOSE i \in 1..Len(UPPER) : UPPER[i] = c]
    ELSE c

\* str.lower()
lower(s) == [i \in 1..Len(s) |-> LowerChar(s[i])]

\* s[:n]
Prefix(s, n) == SubSeq(s, 1, IF Len(s) < n THEN Len(s) ELSE n)

\* positions of character c in s
Positions(s, c) == {i \in 1..Len(s) : s[i] = c}

\* s.rfind(c), 0 when absent (positions are 1-based)
rfind(s, c) == IF Positions(s, c) = {} THEN 0 ELSE Max(Positions(s, c))

\* os.path.basename
basename(p) == SubSeq(p, rfind(p, "/") + 1, Len(p))

\* os.path.dirname, for the paths glob builds with os.path.join
dirname(p) == SubSeq(p, 1, rfind(p, "/") - 1)

\* os.path.splitext(p)[0]: the extension starts at the last dot of the last
\* component, unless only dots precede it in that component
splitext_root(p) ==
    LET sep == rfind(p, "/")
        dot == rfind(p, ".")
    IN  IF dot > sep /\ \E k \in (sep + 1)..(dot - 1) : p[k] # "."
        THEN SubSeq(p, 1, dot - 1)
        ELSE p

\* dict with d[k] = v
dict_set(d, k, v) == [x \in (DOMAIN d) \cup {k} |-> IF x = k THEN v ELSE d[x]]

EmptyDict == <<>>

(***************************************************************************)
(* Literals of the source.                                                 *)
(***************************************************************************)
CDATA == <<"C","D","A","T","A">>

CDATA_OPEN == <<"<","!","[","C","D","A","T","A","[">>

CDATA_CLOSE == <<"]","]",">">>

QUERY == <<"q","u","e","r","y">>

UNKNOWN == <<"u","n","k","n","o","w","n">>

ERROR_KEY == <<"e","r","r","o","r">>

JSON_EXT == <<".","j","s","o","n">>

GLUE_SQL_EXT == <<".","g","l","u","e","_","s","q","l">>

XML_EXT == <<".","x","m","l">>

\* f"<![CDATA[\n{cleaned_query}\n         ]]>"
wrap_cdata(body) ==
    CDATA_OPEN \o <<"\n">> \o body
        \o <<"\n", " ", " ", " ", " ", " ", " ", " ", " ", " ">> \o CDATA_CLOSE

(***************************************************************************)
(* What a call does: return a value or raise.                              *)
(***************************************************************************)
Return(v) == [raised |-> FALSE, exc |-> "none", value |-> v]

Raise(e) == [raised |-> TRUE, exc |-> e, value |-> <<>>]

(***************************************************************************)
(* The file system.                                                        *)
(***************************************************************************)
Absent == [kind |-> "absent", data |-> <<>>]

Lookup(fsys, p) == IF p \in DOMAIN fsys THEN fsys[p] ELSE Absent

\* os.path.exists follows symbolic links: a dangling link does not exist
path_exists_always(fsys, p) == TRUE

path_exists(fsys, p) == Lookup(fsys, p).kind \notin {"absent", "dangling"}

isdir(fsys, p) == Lookup(fsys, p).kind = "dir"

isfile(fsys, p) == Lookup(fsys, p).kind \in {"unreadable", "malformed", "xml", "json"}

NoRoot == [desc |-> None, children |-> <<>>]

\* ET.parse(file_path); tree.getroot()
ET_parse(fsys, file_path) ==
    LET e == Lookup(fsys, file_path)
    IN  CASE e.kind \in {"absent", "dangling"} ->
                [exc |-> "FileNotFoundError", root |-> NoRoot]
          [] e.kind = "dir" -> [exc |-> "IsADirectoryError", root |-> NoRoot]
          [] e.kind = "unreadable" -> [exc |-> "PermissionError", root |-> NoRoot]
          [] e.kind \in {"malformed", "json"} -> [exc |-> "ParseError", root |-> NoRoot]
          [] e.kind = "xml" -> [exc |-> "none", root |-> e.data]

(***************************************************************************)
(* parse_glue_sql_file                                                     *)
(***************************************************************************)
\* element.get(name, '')
get_attr(v) == IF v = None THEN <<>> ELSE v

module_code_of(file_name) ==
    IF Len(file_name) >= 3 THEN lower(Prefix(file_name, 3)) ELSE UNKNOWN

findall_any(root) == root.children

\* root.findall('query'): the direct children whose tag is query
findall_query(root) == SelectSeq(root.children, LAMBDA c : c.tag = QUERY)

\* re.search(r'<!\[CDATA\[(.*?)\]\]>', s, re.DOTALL): group(1) of the
\* leftmost match, the shortest one from there; None without a match
re_search_cdata(s) ==
    LET closes(i) == {j \in (i + Len(CDATA_OPEN))..Len(s) : StartsWithAt(s, CDATA_CLOSE, j)}
        starts == {i \in 1..Len(s) : StartsWithAt(s, CDATA_OPEN, i) /\ closes(i) # {}}
    IN  IF starts = {} THEN None
        ELSE LET i == Min(starts)
             IN  SubSeq(s, i + Len(CDATA_OPEN), Min(closes(i)) - 1)

cdata_matches(child) ==
    \/ Contains(child.tag, CDATA)
    \/ (Truthy(child.text) /\ Contains(child.text, CDATA))

\* the scan of the children, which stops at the first match
scan_children(query) ==
    LET hits == {i \in 1..Len(query.children) : cdata_matches(query.children[i])}
    IN  IF hits = {} THEN [found |-> FALSE, content |-> <<>>]
        ELSE LET raw == OrEmpty(query.children[Min(hits)].text)
                 m == re_search_cdata(raw)
             IN  [found |-> TRUE, content |-> IF m # None THEN m ELSE raw]

\* cdata_content after the fallback to the element's own text
body_source(query) ==
    LET c == scan_children(query).content
    IN  IF ~Truthy(c) /\ Truthy(query.text) THEN query.text ELSE c

build_query_info(query, file_name, query_map_desc) ==
    [id |-> get_attr(query.id),
     desc |-> get_attr(query.desc),
     file_name |-> file_name,
     query_map_desc |-> query_map_desc,
     query |-> wrap_cdata(strip(body_source(query)))]

store_first(d, k, v) == IF k \in DOMAIN d THEN d ELSE dict_set(d, k, v)

\* result[module_code][query_id] = query_info
store_query(d, k, v) == dict_set(d, k, v)

RECURSIVE parse_queries(_, _, _, _)
parse_queries(queries, acc, file_name, query_map_desc) ==
    IF queries = <<>> THEN acc
    ELSE parse_queries(Tail(queries),
                       store_query(acc, get_attr(Head(queries).id),
                                   build_query_info(Head(queries), file_name, query_map_desc)),
                       file_name, query_map_desc)

MSG_XML == "XML parse error"

MSG_OTHER == "processing error"

parse_except_narrow(exc) ==
    IF exc = "ParseError" THEN Return(ERROR_KEY :> <<MSG_XML, exc>>) ELSE Raise(exc)

\* except ET.ParseError / except Exception
parse_except(exc) ==
    IF exc = "ParseError"
    THEN Return(ERROR_KEY :> <<MSG_XML, exc>>)
    ELSE Return(ERROR_KEY :> <<MSG_OTHER, exc>>)

parse_glue_sql_file(file_path, fsys) ==
    LET t == ET_parse(fsys, file_path)
    IN  IF t.exc # "none" THEN parse_except(t.exc)
        ELSE LET file_name == basename(file_path)
                 query_map_desc == get_attr(t.root.desc)
                 module_code == module_code_of(file_name)
             IN  Return(module_code :>
                        parse_queries(findall_query(t.root), EmptyDict,
                                      file_name, query_map_desc))

(***************************************************************************)
(* convert_xml_to_json                                                     *)
(***************************************************************************)
\* if not output_file: os.path.splitext(input_file)[0] + ".json"
output_path(input_file, output_file) ==
    IF ~Truthy(output_file) THEN splitext_root(input_file) \o JSON_EXT ELSE output_file

\* open(output_file, 'w') raises: no permission, a directory, or no parent directory
open_w_fails(fsys, ro, out) ==
    \/ out \in ro
    \/ isdir(fsys, out)
    \/ (dirname(out) # <<>> /\ ~isdir(fsys, dirname(out)))

\* returns [ret, fs]: the boolean returned and the file system left behind
convert_xml_to_json(input_file, output_file, fsys, ro) ==
    IF ~path_exists(fsys, input_file) THEN [ret |-> FALSE, fs |-> fsys]
    ELSE LET result == parse_glue_sql_file(input_file, fsys)
             out == output_path(input_file, output_file)
         IN  IF result.raised \/ open_w_fails(fsys, ro, out)
             THEN [ret |-> FALSE, fs |-> fsys]
             ELSE [ret |-> TRUE,
                   fs |-> dict_set(fsys, out, [kind |-> "json", data |-> result.value])]

(***************************************************************************)
(* main                                                                    *)
(***************************************************************************)
\* fnmatch of a directory entry against "*" + ext; glob skips hidden entries
fnmatch_star(name, ext) == EndsWith(name, ext) /\ name[1] # "."

\* glob.glob(os.path.join(input_path, "*" + ext)), as a set
glob_star(fsys, input_path, ext) ==
    {p \in DOMAIN fsys : /\ fsys[p].kind # "absent"
                         /\ rfind(p, "/") > 0
                         /\ dirname(p) = input_path
                         /\ fnmatch_star(basename(p), ext)}

\* the orders in which the directory scan can list a set of paths
Orders(S) == {o \in [1..Cardinality(S) -> S] : \A i, j \in DOMAIN o : o[i] = o[j] => i = j}

tally_all_success(ok, sc, fc) == <<sc + 1, fc>>

\* if convert_xml_to_json(file): success_count += 1 else: fail_count += 1
tally(ok, sc, fc) == IF ok THEN <<sc + 1, fc>> ELSE <<sc, fc + 1>>

dir_exit_ignores_failures(fc) == 0

\* if fail_count > 0: sys.exit(1)
dir_exit_status(fc) == IF fc > 0 THEN 1 ELSE 0

\* if not success: sys.exit(1)
file_exit_status(success) == IF success THEN 0 ELSE 1

Usage ==
    /\ pc = "start"
    /\ Len(argv) < 2
    /\ exit_status' = 1
    /\ pc' = "exit"
    /\ UNCHANGED <<fs, readonly, argv, files, idx, success_count, fail_count,
                   calls, arg_in, arg_out, ret>>

InvalidPath ==
    /\ pc = "start"
    /\ Len(argv) >= 2
    /\ ~isdir(fs, argv[2])
    /\ ~isfile(fs, argv[2])
    /\ exit_status' = 1
    /\ pc' = "exit"
    /\ UNCHANGED <<fs, readonly, argv, files, idx, success_count, fail_count,
                   calls, arg_in, arg_out, ret>>

DirNoMatch ==
    /\ pc = "start"
    /\ Len(argv) >= 2
    /\ isdir(fs, argv[2])
    /\ glob_star(fs, argv[2], GLUE_SQL_EXT) \cup glob_star(fs, argv[2], XML_EXT) = {}
    /\ exit_status' = 1
    /\ pc' = "exit"
    /\ UNCHANGED <<fs, readonly, argv, files, idx, success_count, fail_count,
                   calls, arg_in, arg_out, ret>>

DirStart ==
    /\ pc = "start"
    /\ Len(argv) >= 2
    /\ isdir(fs, argv[2])
    /\ \E a \in Orders(glob_star(fs, argv[2], GLUE_SQL_EXT)),
          b \in Orders(glob_star(fs, argv[2], XML_EXT)) :
          /\ a \o b # <<>>
          /\ files' = a \o b
    /\ success_count' = 0
    /\ fail_count' = 0
    /\ idx' = 1
    /\ pc' = "loop"
    /\ UNCHANGED <<fs, readonly, argv, exit_status, calls, arg_in, arg_out, ret>>

DirStep ==
    /\ pc = "loop"
    /\ idx <= Len(files)
    /\ LET r == convert_xml_to_json(files[idx], None, fs, readonly)
           t == tally(r.ret, success_count, fail_count)
       IN  /\ fs' = r.fs
           /\ success_count' = t[1]
           /\ fail_count' = t[2]
           /\ calls' = Append(calls, [input |-> files[idx], output |-> None, ret |-> r.ret])
    /\ idx' = idx + 1
    /\ UNCHANGED <<readonly, argv, pc, files, exit_status, arg_in, arg_out, ret>>

DirFinish ==
    /\ pc = "loop"
    /\ idx > Len(files)
    /\ exit_status' = dir_exit_status(fail_count)
    /\ pc' = "exit"
    /\ UNCHANGED <<fs, readonly, argv, files, idx, success_count, fail_count,
                   calls, arg_in, arg_out, ret>>

SingleFile ==
    /\ pc = "start"
    /\ Len(argv) >= 2
    /\ ~isdir(fs, argv[2])
    /\ isfile(fs, argv[2])
    /\ LET output_file == IF Len(argv) > 2 THEN argv[3] ELSE None
           r == convert_xml_to_json(argv[2], output_file, fs, readonly)
       IN  /\ fs' = r.fs
           /\ calls' = Append(calls, [input |-> argv[2], output |-> output_file, ret |-> r.ret])
           /\ exit_status' = file_exit_status(r.ret)
    /\ pc' = "exit"
    /\ UNCHANGED <<readonly, argv, files, idx, success_count, fail_count,
                   arg_in, arg_out, ret>>

(***************************************************************************)
(* Input documents.                                                        *)
(***************************************************************************)
SeqsUpTo(S, n) == UNION {[1..k -> S] : k \in 0..n}

TEXT_SQL == <<" ", "S", "\n", "1", " ">>

TEXT_BLANK == <<" ", "\n">>

TEXT_WRAPPED ==
    <<"a">> \o CDATA_OPEN \o <<" ", "W", " ">> \o CDATA_CLOSE \o <<"b">> \o CDATA_CLOSE

TEXT_VERBATIM == <<" ">> \o CDATA \o <<" ", "v">>

TEXT_EMPTY_WRAP == CDATA_OPEN \o CDATA_CLOSE

TAG_SQL == <<"s","q","l">>

ChildPool ==
    { [tag |-> TAG_SQL, text |-> <<"x">>],
      [tag |-> CDATA, text |-> None],
      [tag |-> TAG_SQL, text |-> TEXT_WRAPPED],
      [tag |-> TAG_SQL, text |-> TEXT_VERBATIM],
      [tag |-> TAG_SQL, text |-> TEXT_EMPTY_WRAP] }

Ids == {None, <<>>, <<"a">>, <<"B","4","7",".","s">>}

\* one query element with every text and every list of children
RichElements ==
    { [tag |-> QUERY, id |-> <<"a">>, desc |-> None, text |-> t, children |-> cs] :
        t \in {None, TEXT_SQL, TEXT_BLANK}, cs \in SeqsUpTo(ChildPool, MaxChildren) }

\* desc, text and children of the query elements of the longer documents
PlainBodies ==
    { [desc |-> None, text |-> TEXT_SQL, children |-> <<>>],
      [desc |-> <<"d">>, text |-> <<"T">>,
       children |-> <<[tag |-> TAG_SQL, text |-> TEXT_WRAPPED]>>],
      [desc |-> <<"d">>, text |-> TEXT_SQL,
       children |-> <<[tag |-> CDATA, text |-> None]>>] }

OtherElement ==
    [tag |-> <<"o">>, id |-> <<"z">>, desc |-> None, text |-> TEXT_SQL, children |-> <<>>]

PlainElements ==
    { [tag |-> QUERY, id |-> i, desc |-> b.desc, text |-> b.text, children |-> b.children] :
        i \in Ids, b \in PlainBodies } \cup {OtherElement}

DocSet ==
    { [desc |-> d, children |-> cs] :
        d \in {None, <<"m">>}, cs \in SeqsUpTo(PlainElements, MaxQueries) }
    \cup { [desc |-> None, children |-> <<e>>] : e \in RichElements }

PATH_B47 == <<"d","/","B","4","7",".","x","m","l">>

PATH_SHORT == <<"Q","7">>

ParsePaths == {PATH_B47, PATH_SHORT}

ParseEntries ==
    { [kind |-> k, data |-> NoRoot] : k \in {"absent", "dir", "unreadable", "malformed"} }
    \cup { [kind |-> "xml", data |-> doc] : doc \in DocSet }

FsOf(p, e) == IF e.kind = "absent" THEN EmptyDict ELSE (p :> e)

NotExited == 0 - 1

(***************************************************************************)
(* Direct calls of parse_glue_sql_file.                                    *)
(***************************************************************************)
InitParse ==
    /\ arg_in \in ParsePaths
    /\ \E e \in ParseEntries : fs = FsOf(arg_in, e)
    /\ readonly = {}
    /\ argv = <<>>
    /\ pc = "call"
    /\ files = <<>>
    /\ idx = 0
    /\ success_count = 0
    /\ fail_count = 0
    /\ exit_status = NotExited
    /\ calls = <<>>
    /\ arg_out = None
    /\ ret = Return(EmptyDict)

CallParse ==
    /\ pc = "call"
    /\ ret' = parse_glue_sql_file(arg_in, fs)
    /\ pc' = "returned"
    /\ UNCHANGED <<fs, readonly, argv, files, idx, success_count, fail_count,
                   exit_status, calls, arg_in, arg_out>>

NextParse == CallParse

ParseSpec == InitParse /\ [][NextParse]_vars

(***************************************************************************)
(* Properties of parse_glue_sql_file.                                      *)
(***************************************************************************)
Input == Lookup(fs, arg_in)

InputDoc == Input.data

\* the elements of s at the positions in at, in order
SubseqAt(s, at) ==
    LET nth(k) == CHOOSE i \in at : Cardinality({j \in at : j < i}) = k - 1
    IN  [k \in 1..Cardinality(at) |-> s[nth(k)]]

\* the direct children named query, in document order
QueryElems(doc) ==
    SubseqAt(doc.children, {i \in 1..Len(doc.children) : doc.children[i].tag = QUERY})

IdOf(q) == IF q.id = None THEN <<>> ELSE q.id

DistinctIds(qs) == \A i, j \in 1..Len(qs) : IdOf(qs[i]) = IdOf(qs[j]) => i = j

LastWith(qs, id) == Max({i \in 1..Len(qs) : IdOf(qs[i]) = id})

\* the document without the query elements that a later one with the same id follows
WithoutShadowed(doc) ==
    LET cs == doc.children
        shadowed(i) == /\ cs[i].tag = QUERY
                       /\ \E j \in (i + 1)..Len(cs) :
                             cs[j].tag = QUERY /\ IdOf(cs[j]) = IdOf(cs[i])
    IN  [doc EXCEPT !.children = SubseqAt(cs, {i \in 1..Len(cs) : ~shadowed(i)})]

ParsedOk == pc = "returned" /\ Input.kind = "xml" /\ ~ret.raised

ExpectedModule == module_code_of(basename(arg_in))

\* C4: parse_glue_sql_file never raises; a failure of parsing (malformed XML,
\* missing or unreadable file, any other exception) is returned as the mapping
\* {"error": message}, and a run without failure returns a mapping with exactly
\* one top-level key, the module code.
C4_ParseNeverRaises ==
    pc = "returned" =>
        /\ ~ret.raised
        /\ Cardinality(DOMAIN ret.value) = 1
        /\ IF Input.kind = "xml"
           THEN ExpectedModule \in DOMAIN ret.value
           ELSE /\ ERROR_KEY \in DOMAIN ret.value
                /\ ret.value[ERROR_KEY][1] =
                      (IF Input.kind = "malformed" THEN MSG_XML ELSE MSG_OTHER)

C4_Witness ==
    /\ pc = "returned"
    /\ Input.kind \in {"unreadable", "absent"}
    /\ ~ret.raised
    /\ DOMAIN ret.value = {ERROR_KEY}

\* C6: when several direct-child query elements carry the same id, the record
\* stored under that id is the one built from the last of them in document
\* order; the earlier ones leave no trace (the mapping equals the one of the
\* document without them) and the records under other ids are unaffected.
C6_LastDuplicateWins ==
    ParsedOk =>
        LET qs == QueryElems(InputDoc)
            stored == ret.value[ExpectedModule]
        IN  /\ \A i \in 1..Len(qs) :
                  /\ IdOf(qs[i]) \in DOMAIN stored
                  /\ stored[IdOf(qs[i])] =
                        build_query_info(qs[LastWith(qs, IdOf(qs[i]))],
                                         basename(arg_in), get_attr(InputDoc.desc))
            /\ ret = parse_glue_sql_file(
                        arg_in, (arg_in :> [kind |-> "xml", data |-> WithoutShadowed(InputDoc)]))

C6_Witness ==
    /\ ParsedOk
    /\ LET qs == QueryElems(InputDoc)
       IN  \E i, j, k \in 1..Len(qs) :
              /\ i < j
              /\ IdOf(qs[i]) = IdOf(qs[j])
              /\ qs[i] # qs[j]
              /\ IdOf(qs[k]) # IdOf(qs[i])
              /\ ret.value[ExpectedModule][IdOf(qs[i])].desc = get_attr(qs[j].desc)
              /\ ret.value[ExpectedModule][IdOf(qs[i])].desc # get_attr(qs[i].desc)

\* C7: a well-formed document whose root has N direct-child query elements with
\* pairwise distinct ids (an absent id counts as the empty string) yields a
\* mapping with the module code as its single top-level key, which maps to
\* exactly N entries, one per query element under its id; N = 0 gives
\* {module_code: {}}.
C7_OneEntryPerQuery ==
    (ParsedOk /\ DistinctIds(QueryElems(InputDoc))) =>
        LET qs == QueryElems(InputDoc)
        IN  /\ DOMAIN ret.value = {ExpectedModule}
            /\ Cardinality(DOMAIN ret.value[ExpectedModule]) = Len(qs)
            /\ DOMAIN ret.value[ExpectedModule] = {IdOf(qs[i]) : i \in 1..Len(qs)}
            /\ \A i \in 1..Len(qs) : ret.value[ExpectedModule][IdOf(qs[i])].id = IdOf(qs[i])

C7_Witness ==
    /\ ParsedOk
    /\ LET qs == QueryElems(InputDoc)
       IN  /\ DistinctIds(qs)
           /\ Len(qs) >= 2
           /\ Len(InputDoc.children) > Len(qs)
           /\ \E i \in 1..Len(qs) : qs[i].id = None
           /\ Cardinality(DOMAIN ret.value[ExpectedModule]) = Len(qs)

\* C10: the body of a query element is the element's own direct text only when
\* no child matched the CDATA scan; whenever a child matched, the body is that
\* first matching child's extracted content, also when it is empty, and the
\* element's direct text is not used.
C10_TextOnlyWithoutMatch ==
    (ParsedOk /\ DistinctIds(QueryElems(InputDoc))) =>
        LET qs == QueryElems(InputDoc)
        IN  \A i \in 1..Len(qs) :
               ret.value[ExpectedModule][IdOf(qs[i])].query =
                  wrap_cdata(strip(IF scan_children(qs[i]).found
                                   THEN scan_children(qs[i]).content
                                   ELSE OrEmpty(qs[i].text)))

(***************************************************************************)
(* Direct calls of convert_xml_to_json.                                    *)
(***************************************************************************)
DIR_D == <<"d">>

PATH_DOTTED == <<"d","/","a",".","b",".","g","l","u","e","_","s","q","l">>

PATH_OUT == <<"o",".","j","s","o","n">>

DocA ==
    [desc |-> <<"m">>,
     children |-> <<[tag |-> QUERY, id |-> <<"a">>, desc |-> None,
                     text |-> TEXT_SQL, children |-> <<>>]>>]

DocEmpty == [desc |-> None, children |-> <<>>]

Entry(k) == [kind |-> k, data |-> IF k = "xml" THEN DocA ELSE NoRoot]

\* an output file left by an earlier run
OldJson == [kind |-> "json", data |-> (<<"o","l","d">> :> EmptyDict)]

ConvertPaths == {PATH_B47, PATH_SHORT, PATH_DOTTED}

ConvertEntries ==
    {Entry(k) : k \in {"absent", "dangling", "unreadable", "malformed", "xml"}}
    \cup {[kind |-> "xml", data |-> DocEmpty]}

InitConvert ==
    /\ arg_in \in ConvertPaths
    /\ arg_out \in {None, <<>>, PATH_OUT}
    /\ \E e \in ConvertEntries, old \in SUBSET {output_path(arg_in, None), PATH_OUT} :
          fs = [p \in old |-> OldJson] @@ FsOf(arg_in, e) @@ (DIR_D :> Entry("dir"))
    /\ readonly \in SUBSET {output_path(arg_in, None), PATH_OUT}
    /\ argv = <<>>
    /\ pc = "call"
    /\ files = <<>>
    /\ idx = 0
    /\ success_count = 0
    /\ fail_count = 0
    /\ exit_status = NotExited
    /\ calls = <<>>
    /\ ret = Return(EmptyDict)

CallConvert ==
    /\ pc = "call"
    /\ LET r == convert_xml_to_json(arg_in, arg_out, fs, readonly)
       IN  /\ ret' = Return(r.ret)
           /\ fs' = r.fs
    /\ pc' = "returned"
    /\ UNCHANGED <<readonly, argv, files, idx, success_count, fail_count,
                   exit_status, calls, arg_in, arg_out>>

NextConvert == CallConvert

ConvertSpec == InitConvert /\ [][NextConvert]_vars

\* C8: called with an input path that does not exist, convert_xml_to_json
\* returns false without raising and leaves the file system unchanged: no output
\* file is created or truncated, at the given output path or at the derived one.
C8_MissingInputWritesNothing ==
    [][(pc = "call" /\ Lookup(fs, arg_in).kind \in {"absent", "dangling"})
          => (fs' = fs /\ (pc' = "returned" => ret' = Return(FALSE)))]_vars

C8_Witness ==
    /\ pc = "returned"
    /\ Lookup(fs, arg_in).kind = "absent"
    /\ arg_out = PATH_OUT
    /\ Lookup(fs, PATH_OUT) = OldJson
    /\ Lookup(fs, output_path(arg_in, None)).kind = "absent"
    /\ ret = Return(FALSE)

(***************************************************************************)
(* Runs of main.                                                           *)
(***************************************************************************)
PROG == <<"x",".","p","y">>

PATH_B47_GLUE == <<"d","/","B","4","7",".","g","l","u","e","_","s","q","l">>

PATH_AB == <<"d","/","a","b",".","x","m","l">>

PATH_Q7_GLUE == <<"d","/","Q","7",".","g","l","u","e","_","s","q","l">>

PATH_TXT == <<"d","/","n",".","t","x","t">>

PATH_HIDDEN == <<"d","/",".","x","m","l">>

PATH_B47_JSON == <<"d","/","B","4","7",".","j","s","o","n">>

PATH_NOPE == <<"n","o","p","e">>

InputKinds == {"absent", "dangling", "malformed", "xml"}

MainArgvs ==
    { <<PROG>>, <<PROG, DIR_D>>, <<PROG, DIR_D, PATH_OUT>>, <<PROG, PATH_B47>>,
      <<PROG, PATH_B47, PATH_OUT>>, <<PROG, PATH_AB>>, <<PROG, PATH_NOPE>> }

Init ==
    /\ \E kb, kg, ka, kq \in InputKinds, kt, kh \in {"absent", "xml"} :
          fs = (DIR_D :> Entry("dir")) @@ FsOf(PATH_B47, Entry(kb))
                  @@ FsOf(PATH_B47_GLUE, Entry(kg)) @@ FsOf(PATH_AB, Entry(ka))
                  @@ FsOf(PATH_Q7_GLUE, Entry(kq))
                  @@ FsOf(PATH_TXT, Entry(kt)) @@ FsOf(PATH_HIDDEN, Entry(kh))
    /\ readonly \in SUBSET {PATH_B47_JSON, PATH_OUT}
    /\ argv \in MainArgvs
    /\ pc = "start"
    /\ files = <<>>
    /\ idx = 0
    /\ success_count = 0
    /\ fail_count = 0
    /\ exit_status = NotExited
    /\ calls = <<>>
    /\ arg_in = None
    /\ arg_out = None
    /\ ret = Return(EmptyDict)

Next ==
    \/ Usage
    \/ InvalidPath
    \/ DirNoMatch
    \/ DirStart
    \/ DirStep
    \/ DirFinish
    \/ SingleFile

Spec == Init /\ [][Next]_vars

\* the entries of directory d that the two patterns match
MatchedInD ==
    {p \in {PATH_B47, PATH_B47_GLUE, PATH_AB, PATH_Q7_GLUE} : Lookup(fs, p).kind # "absent"}

KindOf(p) == Lookup(fs, p).kind

FailedCalls == {i \in 1..Len(calls) : ~calls[i].ret}

DirMode == Len(argv) >= 2 /\ KindOf(argv[2]) = "dir"

FileMode == Len(argv) >= 2 /\ KindOf(argv[2]) \in {"unreadable", "malformed", "xml", "json"}

\* C1: a single-file invocation on an existing file of malformed XML, with a
\* writable output path, produces an output JSON file whose top-level object
\* has the key "error", convert_xml_to_json returns false and the exit status
\* is non-zero.
C1_MalformedSingleFileFails ==
    (pc = "exit" /\ FileMode /\ KindOf(argv[2]) = "malformed"
       /\ output_path(argv[2], IF Len(argv) > 2 THEN argv[3] ELSE None) \notin readonly) =>
        LET out == output_path(argv[2], IF Len(argv) > 2 THEN argv[3] ELSE None)
        IN  /\ KindOf(out) = "json"
            /\ ERROR_KEY \in DOMAIN Lookup(fs, out).data
            /\ Len(calls) = 1
            /\ calls[1].ret = FALSE
            /\ exit_status # 0

\* C2: in directory mode, a directory with exactly 3 matching files of which
\* exactly one is malformed XML, all output paths writable, ends with
\* success_count = 2, fail_count = 1 and a non-zero exit status; every
\* malformed input file is counted as a failure.
C2_MalformedCountedAsFailure ==
    /\ (pc = "exit" /\ DirMode /\ Cardinality(MatchedInD) = 3
          /\ Cardinality({p \in MatchedInD : KindOf(p) = "malformed"}) = 1
          /\ Cardinality({p \in MatchedInD : KindOf(p) = "xml"}) = 2
          /\ readonly = {}) =>
           (success_count = 2 /\ fail_count = 1 /\ exit_status # 0)
    /\ (pc = "exit" /\ DirMode) =>
           \A i \in 1..Len(calls) : KindOf(calls[i].input) = "malformed" => ~calls[i].ret

\* C3: the exit status of main is 0 exactly on full success and 1 otherwise:
\* 1 without an argument, for an input path that is neither a directory nor a
\* file, for a directory without matching file, and when any call of
\* convert_xml_to_json returned false; 0 when every call returned true.
C3_ExitStatus ==
    pc = "exit" =>
        /\ exit_status \in {0, 1}
        /\ Len(argv) < 2 => exit_status = 1
        /\ (Len(argv) >= 2 /\ ~DirMode /\ ~FileMode) => exit_status = 1
        /\ (DirMode /\ MatchedInD = {}) => exit_status = 1
        /\ FailedCalls # {} => exit_status = 1
        /\ (calls # <<>> /\ FailedCalls = {}) => exit_status = 0
        /\ exit_status = 0 => (calls # <<>> /\ FailedCalls = {})

C3_Witness ==
    /\ pc = "exit"
    /\ exit_status = 0
    /\ DirMode
    /\ Len(calls) = 3

\* C5: after a directory-mode run, for each matched file whose conversion
\* returned true, the file at its derived output path (extension replaced by
\* .json) exists and holds the ConversionResult of that input, not of another
\* input of the batch.
C5_OwnArtifactPerInput ==
    (pc = "exit" /\ DirMode) =>
        \A i \in 1..Len(calls) :
            calls[i].ret =>
                /\ KindOf(output_path(calls[i].input, None)) = "json"
                /\ Lookup(fs, output_path(calls[i].input, None)).data =
                      parse_glue_sql_file(calls[i].input, fs).value

\* C9: in directory mode every matched file is passed to convert_xml_to_json
\* exactly once, one after the other, always with the default output path even
\* when a second argument is given; a false return does not stop the loop, so
\* at the end success_count + fail_count is the number of matched files and
\* fail_count is the number of calls that returned false.
C9_BatchCallsEachFileOnce ==
    (pc \in {"loop", "exit"} /\ DirMode /\ files # <<>>) =>
        /\ {files[i] : i \in 1..Len(files)} = MatchedInD
        /\ Len(files) = Cardinality(MatchedInD)
        /\ Len(calls) = idx - 1
        /\ \A i \in 1..Len(calls) : calls[i].input = files[i] /\ calls[i].output = None
        /\ KindOf(PATH_OUT) = "absent"
        /\ success_count + fail_count = Len(calls)
        /\ fail_count = Cardinality(FailedCalls)
        /\ pc = "exit" => Len(calls) = Len(files)

C9_Witness ==
    /\ pc = "exit"
    /\ DirMode
    /\ Len(argv) = 3
    /\ Len(calls) = 3
    /\ ~calls[1].ret
    /\ calls[2].ret
    /\ fail_count = 1
    /\ success_count = 2

====
